---- MODULE Spec2Model ----
(***************************************************************************)
(* Model of the backend sidecar supervisor of the desktop shell            *)
(* (DAS Frontend/src-tauri/src/main.rs): start_backend with its path       *)
(* resolution and log file, the readiness probe wait_for_backend_ready,    *)
(* the process slot BackendProcess(Mutex<Option<Child>>), and the two      *)
(* shutdown paths (the CloseRequested worker threads and the               *)
(* RunEvent::Exit handler) that take the child out of the slot and call    *)
(* terminate_backend_process.                                              *)
(*                                                                         *)
(* Threads: 0 is the thread that runs setup and delivers the events;       *)
(* 1..NumWorkers are the threads spawned by the CloseRequested handler.    *)
(***************************************************************************)
EXTENDS Integers, Sequences, FiniteSets, TLC

(* ------------------------------ bounds -------------------------------- *)

\* CloseRequested events delivered in one run (one worker thread each).
NumWorkers == 2
\* Largest max_attempts the probe is called with when checked on its own.
MaxAttempts == 3
\* Largest small delay_ms the probe is called with when checked on its own.
MaxDelay == 2
\* Process identifiers the OS may give the child: 1..MaxPid.
MaxPid == 2

(* ------------------------- program constants -------------------------- *)

\* stream.set_read_timeout(Some(Duration::from_millis(1000)))
ReadTimeoutMs == 1000
\* vec![0u8; 2048]
BufSize == 2048
\* wait_for_backend_ready(100, 200)
StartupAttempts == 100
StartupDelayMs == 200
\* char::REPLACEMENT_CHARACTER, what from_utf8_lossy puts for invalid bytes
ReplacementChar == 65533

Workers == 1..NumWorkers
Pids == 1..MaxPid

(* --------------------- response text of the probe --------------------- *)

\* "HTTP/1.1 200"
HttpOk == <<72, 84, 84, 80, 47, 49, 46, 49, 32, 50, 48, 48>>
\* "\"status\""
StatusMarker == <<34, 115, 116, 97, 116, 117, 115, 34>>

\* What a peer may deliver to one read, as bytes.
\* HTTP/1.1 200 OK\r\n\r\n{"status":"ok"}
RespFull ==
  HttpOk \o <<32, 79, 75, 13, 10, 13, 10, 123>> \o StatusMarker
         \o <<58, 34, 111, 107, 34, 125>>
\* HTTP/1.1 200 OK\r\n\r\n
RespOkNoBody == HttpOk \o <<32, 79, 75, 13, 10, 13, 10>>
\* HTTP/1.1 503 \r\n\r\n{"status":"down"}  (status marker, no success line)
RespDownWithStatus ==
  <<72, 84, 84, 80, 47, 49, 46, 49, 32, 53, 48, 51, 32, 13, 10, 13, 10, 123>>
  \o StatusMarker \o <<58, 34, 100, 111, 119, 110, 34, 125>>
\* HTTP/1.1 503 \r\n\r\nstatus  (the word without its quotes)
RespDownBare ==
  <<72, 84, 84, 80, 47, 49, 46, 49, 32, 53, 48, 51, 32, 13, 10, 13, 10,
    115, 116, 97, 116, 117, 115>>
\* HTTP/1.1 2   (a read that ends inside the status line)
RespCut == <<72, 84, 84, 80, 47, 49, 46, 49, 32, 50>>
\* HTTP/1.0 200 OK\r\n\r\n
RespHttp10 == <<72, 84, 84, 80, 47, 49, 46, 48, 32, 50, 48, 48, 32, 79, 75,
                13, 10, 13, 10>>
\* HTTP/1.1 <0xFF>200  (an invalid byte inside the status line)
RespBadByteInside == <<72, 84, 84, 80, 47, 49, 46, 49, 32, 255, 50, 48, 48>>
\* <0xFF><0xC3><0xA9>HTTP/1.1 200  (invalid byte and a two-byte char in front)
RespBadBytePrefix == <<255, 195, 169>> \o HttpOk
\* <0xC3>"status"  (a lead byte whose continuation is missing)
RespLoneLead == <<195>> \o StatusMarker

Responses ==
  { RespFull, RespOkNoBody, RespDownWithStatus, RespDownBare, RespCut,
    RespHttp10, RespBadByteInside, RespBadBytePrefix, RespLoneLead }

Min(a, b) == IF a < b THEN a ELSE b

\* str::contains on sequences of code points.
Contains(hay, needle) ==
  \E i \in 1..(Len(hay) - Len(needle) + 1) :
     SubSeq(hay, i, i + Len(needle) - 1) = needle

\* String::from_utf8_lossy for bytes made of ASCII, two-byte sequences
\* (lead 0xC2..0xDF, continuation 0x80..0xBF) and invalid bytes: each byte
\* that starts no valid sequence becomes U+FFFD.
RECURSIVE FromUtf8Lossy(_)
FromUtf8Lossy(bytes) ==
  IF bytes = <<>> THEN <<>>
  ELSE LET b == Head(bytes) IN
    IF b < 128 THEN <<b>> \o FromUtf8Lossy(Tail(bytes))
    ELSE IF /\ b >= 194 /\ b <= 223 /\ Len(bytes) >= 2
            /\ bytes[2] >= 128 /\ bytes[2] <= 191
         THEN <<(b - 192) * 64 + (bytes[2] - 128)>>
              \o FromUtf8Lossy(SubSeq(bytes, 3, Len(bytes)))
         ELSE <<ReplacementChar>> \o FromUtf8Lossy(Tail(bytes))

\* The bytes one read leaves in the buffer: at most BufSize of them.
ReadInto(resp) == SubSeq(resp, 1, Min(Len(resp), BufSize))

\* The readiness test of line 139 on the text of the bytes read.
ResponseIsReadyStatusLineOnly(response_str) == Contains(response_str, HttpOk)
ResponseIsReady(response_str) ==
  Contains(response_str, HttpOk) \/ Contains(response_str, StatusMarker)

(* ------------------------- path resolution ---------------------------- *)

\* The if/else of lines 208-223: which file start_backend launches.
ResolveBackendExe(primary, sidecar) ==
  IF primary THEN "primary" ELSE IF sidecar THEN "sidecar" ELSE "none"

VARIABLES
  \* the readiness probe (one call of wait_for_backend_ready)
  ppc,            \* "idle", "loop", "returned"
  max_attempts,   \* argument
  delay_ms,       \* argument
  attempt,        \* iterations of the for loop begun so far
  connects,       \* TcpStream::connect calls made
  sleeps,         \* thread::sleep calls made
  elapsed,        \* ms the calling thread has been blocked (sleeps, read timeouts)
  ready,          \* return value: "pending", "true", "false"
  matchedAt,      \* first attempt whose read bytes held a marker, 0 if none
  allRefused,     \* every connect so far was refused
  \* the directory of the executable
  primaryExists,  \* school-management-backend.exe exists
  sidecarExists,  \* school-management-backend-x86_64-pc-windows-msvc.exe exists
  logFile,        \* backend.log: "absent", "old" (earlier run's output), "fresh"
  \* thread 0: setup, then the event loop
  mpc,
  backend_exe,    \* "unset", "primary", "sidecar"
  sbResult,       \* start_backend's Result: [tag |-> "none" | "Ok" | "Err", ...]
  probeReady,     \* what the probe returned to start_backend
  child,          \* "none", "running", "killed", "survived"
  childPid,       \* 0 before the spawn
  \* BackendProcess(Mutex<Option<Child>>)
  slot,           \* "unmanaged", "None", "Some"
  lockHolder,     \* set of threads holding the mutex (at most one)
  handlerSet,     \* on_window_event closure registered
  \* window-close workers
  wpc,
  \* terminate_backend_process
  killCalls,      \* sequence of [by |-> thread, pid |-> pid], one per call
  tookHandle,     \* threads whose process.take() returned Some
  lateStart       \* threads started after some termination had completed

probeVars ==
  <<ppc, max_attempts, delay_ms, attempt, connects, sleeps, elapsed, ready,
    matchedAt, allRefused>>
dirVars == <<primaryExists, sidecarExists, logFile>>
startVars == <<backend_exe, sbResult, probeReady, child, childPid>>
slotVars == <<slot, lockHolder, handlerSet, wpc, killCalls, tookHandle,
              lateStart>>
vars == <<probeVars, dirVars, mpc, startVars, slotVars>>

NoResult == [tag |-> "none", kind |-> "none", path |-> "none"]
OkResult == [tag |-> "Ok", kind |-> "none", path |-> "none"]
ErrResult(k, p) == [tag |-> "Err", kind |-> k, path |-> p]

(* ---------------------- wait_for_backend_ready ------------------------ *)

\* The frame of a call (pc "loop") or of no call (pc "idle") in the next state.
ProbeFrame(pc, n, d) ==
  /\ ppc' = pc /\ max_attempts' = n /\ delay_ms' = d /\ attempt' = 0
  /\ connects' = 0 /\ sleeps' = 0 /\ elapsed' = 0 /\ ready' = "pending"
  /\ matchedAt' = 0 /\ allRefused' = TRUE

ProbeIdle ==
  /\ ppc = "idle" /\ max_attempts = 0 /\ delay_ms = 0 /\ attempt = 0
  /\ connects = 0 /\ sleeps = 0 /\ elapsed = 0 /\ ready = "pending"
  /\ matchedAt = 0 /\ allRefused = TRUE

\* Entry of the function with its two arguments.
ProbeCalled(n, d) ==
  /\ ppc = "loop" /\ max_attempts = n /\ delay_ms = d /\ attempt = 0
  /\ connects = 0 /\ sleeps = 0 /\ elapsed = 0 /\ ready = "pending"
  /\ matchedAt = 0 /\ allRefused = TRUE

\* The thread::sleep calls that follow an iteration that did not return:
\* line 154 after a refused connect, line 127 after a failed
\* set_read_timeout, line 148 after everything else.
SleepsAfterContinuesAtOnce(outcome) ==
  IF outcome = "set_read_timeout_failed" THEN 0 ELSE 1
SleepsAfter(outcome) ==
  CASE outcome = "refused" -> 1
    [] outcome = "set_read_timeout_failed" -> 1
    [] OTHER -> 1

\* Time the calling thread is blocked inside one iteration before its sleep:
\* a silent peer holds read for the whole read timeout.
BlockedIn(outcome) == IF outcome = "read_timed_out" THEN ReadTimeoutMs ELSE 0

\* One iteration that does not return: connect, what follows it, the sleep.
IterationFails(outcome) ==
  /\ attempt' = attempt + 1
  /\ connects' = connects + 1
  /\ sleeps' = sleeps + SleepsAfter(outcome)
  /\ elapsed' = elapsed + BlockedIn(outcome) + SleepsAfter(outcome) * delay_ms
  /\ allRefused' = (allRefused /\ outcome = "refused")
  /\ UNCHANGED <<ppc, max_attempts, delay_ms, ready>>

\* Line 122: for _attempt in 0..max_attempts has another iteration.
RangeHasNextInclusive(i, n) == i <= n
RangeHasNext(i, n) == i < n

InLoop == ppc = "loop" /\ RangeHasNext(attempt, max_attempts)

\* Line 123 Err(_): connection refused, lines 150-155.
ConnectRefused ==
  /\ InLoop
  /\ IterationFails("refused")
  /\ UNCHANGED <<matchedAt, dirVars, mpc, startVars, slotVars>>

\* Lines 126-129: set_read_timeout fails, sleep and continue.
SetReadTimeoutFails ==
  /\ InLoop
  /\ IterationFails("set_read_timeout_failed")
  /\ UNCHANGED <<matchedAt, dirVars, mpc, startVars, slotVars>>

\* Line 133: write_all fails, falls to the sleep of line 148.
WriteFails ==
  /\ InLoop
  /\ IterationFails("write_failed")
  /\ UNCHANGED <<matchedAt, dirVars, mpc, startVars, slotVars>>

\* Line 135: read returns Err at once (reset by the peer), lines 145, 148.
ReadFails ==
  /\ InLoop
  /\ IterationFails("read_failed")
  /\ UNCHANGED <<matchedAt, dirVars, mpc, startVars, slotVars>>

\* Line 135: the peer accepted and stays silent; read returns Err when the
\* read timeout of line 126 expires, then lines 145, 148.
ReadTimesOut ==
  /\ InLoop
  /\ IterationFails("read_timed_out")
  /\ UNCHANGED <<matchedAt, dirVars, mpc, startVars, slotVars>>

\* Line 135: read returns Ok(0), the guard bytes_read > 0 fails, lines 145, 148.
ReadEof ==
  /\ InLoop
  /\ IterationFails("read_zero")
  /\ UNCHANGED <<matchedAt, dirVars, mpc, startVars, slotVars>>

\* Lines 135-144: read returns Ok(n), n > 0.
\* A match returns true at once; anything else sleeps (line 148).
ReadResponse ==
  /\ InLoop
  /\ \E resp \in Responses :
       LET bytes == ReadInto(resp)
           response_str == FromUtf8Lossy(bytes)
           marked == Contains(bytes, HttpOk) \/ Contains(bytes, StatusMarker)
       IN /\ Len(bytes) > 0
          /\ matchedAt' = IF marked /\ matchedAt = 0 THEN attempt + 1
                          ELSE matchedAt
          /\ IF ResponseIsReady(response_str)
             THEN /\ attempt' = attempt + 1
                  /\ connects' = connects + 1
                  /\ ppc' = "returned"
                  /\ ready' = "true"
                  /\ allRefused' = FALSE
                  /\ UNCHANGED <<max_attempts, delay_ms, sleeps, elapsed>>
             ELSE IterationFails("no_match")
  /\ UNCHANGED <<dirVars, mpc, startVars, slotVars>>

\* Lines 157-161: the range is exhausted, return false.
LoopExhausted ==
  /\ ppc = "loop"
  /\ ~RangeHasNext(attempt, max_attempts)
  /\ ppc' = "returned"
  /\ ready' = "false"
  /\ UNCHANGED <<max_attempts, delay_ms, attempt, connects, sleeps, elapsed,
                 matchedAt, allRefused, dirVars, mpc, startVars, slotVars>>

ProbeStep ==
  \/ ConnectRefused
  \/ SetReadTimeoutFails
  \/ WriteFails
  \/ ReadFails
  \/ ReadTimesOut
  \/ ReadEof
  \/ ReadResponse
  \/ LoopExhausted

(* --------------------------- start_backend ---------------------------- *)

\* Every exit of start_backend hands its Result to the match of line 251.
Returns(r) ==
  /\ sbResult' = r
  /\ mpc' = "setup_match"

\* Lines 189-192: current_exe() and parent(); either may fail (`?`).
SbCurrentExe ==
  /\ mpc = "sb_current_exe"
  /\ \/ /\ mpc' = "sb_create_log"
        /\ UNCHANGED sbResult
     \/ Returns(ErrResult("current_exe", "none"))
  /\ UNCHANGED <<probeVars, dirVars, backend_exe, probeReady, child, childPid,
                 slotVars>>

\* Lines 201-203: File::create(backend.log) creates or truncates the file,
\* then try_clone(); either may fail (`?`). A failed create leaves the
\* directory as it was.
SbCreateLog ==
  /\ mpc = "sb_create_log"
  /\ \/ /\ logFile' = "fresh"
        /\ mpc' = "sb_resolve"
        /\ UNCHANGED sbResult
     \/ /\ UNCHANGED logFile
        /\ Returns(ErrResult("log_create", "log"))
     \/ /\ logFile' = "fresh"
        /\ Returns(ErrResult("log_clone", "log"))
  /\ UNCHANGED <<probeVars, primaryExists, sidecarExists, backend_exe,
                 probeReady, child, childPid, slotVars>>

\* Lines 208-223: the primary name, else the sidecar name, else NotFound
\* with the primary path in its message.
SbResolve ==
  /\ mpc = "sb_resolve"
  /\ LET exe == ResolveBackendExe(primaryExists, sidecarExists) IN
       IF exe = "none"
       THEN /\ Returns(ErrResult("NotFound", "primary"))
            /\ UNCHANGED backend_exe
       ELSE /\ backend_exe' = exe
            /\ mpc' = "sb_spawn"
            /\ UNCHANGED sbResult
  /\ UNCHANGED <<probeVars, dirVars, probeReady, child, childPid, slotVars>>

\* Lines 225-230: Command::spawn(); the OS may refuse (`?`).
SbSpawn ==
  /\ mpc = "sb_spawn"
  /\ \/ \E pid \in Pids :
          /\ child' = "running"
          /\ childPid' = pid
          /\ mpc' = "sb_probe"
          /\ UNCHANGED sbResult
     \/ /\ Returns(ErrResult("spawn", backend_exe))
        /\ UNCHANGED <<child, childPid>>
  /\ UNCHANGED <<probeVars, dirVars, backend_exe, probeReady, slotVars>>

\* Line 234: the call wait_for_backend_ready(100, 200).
SbCallProbe ==
  /\ mpc = "sb_probe"
  /\ ProbeIdle
  /\ ProbeFrame("loop", StartupAttempts, StartupDelayMs)
  /\ mpc' = "sb_wait_probe"
  /\ UNCHANGED <<dirVars, startVars, slotVars>>

\* What start_backend does with the probe's answer and the child, lines
\* 234-239: a warning at most, then Ok(child).
RollsBackWhenNotReady(answer) ==
  IF answer = "true" THEN [result |-> OkResult, child |-> child]
  ELSE [result |-> ErrResult("not_ready", backend_exe), child |-> "killed"]
AfterProbe(answer) == [result |-> OkResult, child |-> child]

\* Lines 234-239: the probe has returned; its frame is gone.
SbReturn ==
  /\ mpc = "sb_wait_probe"
  /\ ppc = "returned"
  /\ probeReady' = ready
  /\ child' = AfterProbe(ready).child
  /\ Returns(AfterProbe(ready).result)
  /\ ProbeFrame("idle", 0, 0)
  /\ UNCHANGED <<dirVars, backend_exe, childPid, slotVars>>

(* ------------------------------ setup --------------------------------- *)

\* The Option that is put under the mutex for each Result, lines 251-264.
SlotForDropsChild(r) == "None"
SlotForManagesOnlyOk(r) == IF r.tag = "Ok" THEN "Some" ELSE "unmanaged"
SlotFor(r) == IF r.tag = "Ok" THEN "Some" ELSE "None"

\* Lines 251-264: app.manage(BackendProcess(Mutex::new(..))).
SetupManage ==
  /\ mpc = "setup_match"
  /\ slot' = SlotFor(sbResult)
  /\ mpc' = "setup_window"
  /\ UNCHANGED <<probeVars, dirVars, startVars, lockHolder, handlerSet, wpc,
                 killCalls, tookHandle, lateStart>>

\* Lines 268-303: the window-event closure is registered, setup returns Ok
\* and the event loop starts.
SetupRegister ==
  /\ mpc = "setup_window"
  /\ handlerSet' = TRUE
  /\ mpc' = "running"
  /\ UNCHANGED <<probeVars, dirVars, startVars, slot, lockHolder, wpc,
                 killCalls, tookHandle, lateStart>>

(* --------------------- terminate_backend_process ---------------------- *)

\* Lines 164-185: taskkill /PID pid /T /F; its output is dropped (`let _`),
\* so the call returns the same way whether the tree was killed or not.
ChildAfterKill(c, killed) ==
  IF c = "running" /\ killed THEN "killed"
  ELSE IF c = "running" THEN "survived"
  ELSE c

TerminateIssuesNothing(t) == UNCHANGED <<killCalls, child>>
Terminate(t) ==
  /\ killCalls' = Append(killCalls, [by |-> t, pid |-> childPid])
  /\ \E killed \in BOOLEAN : child' = ChildAfterKill(child, killed)

(* ------------------- the slot: lock, take, release -------------------- *)

\* Option::take: what is left in the slot.
SlotAfterTakeLeavesHandle(s) == s
SlotAfterTake(s) == "None"

\* What the slot holds when the call of terminate_backend_process has
\* returned: the handle was moved out by take and is dropped, whatever the
\* kill did.
SlotAfterKillPutsBackOnFailure(s, c) == IF c = "survived" THEN "Some" ELSE s
SlotAfterKill(s, c) == s

\* Who holds the mutex once take has returned Some: the guard `process`
\* lives to the end of its `if let Ok(mut process)` block (lines 288-296 and
\* 311-320), so the taker keeps the mutex through the kill.
GuardDroppedBeforeKill(holder, t) == holder \ {t}
GuardAfterTake(holder, t) == holder

(* ------------------ window-close worker, lines 286-298 ---------------- *)

Alive == mpc # "exited"

\* Some termination (a worker's closure or the Exit callback) has returned.
AnyCompleted ==
  \/ \E w \in Workers : wpc[w] = "done"
  \/ mpc \in {"exit_done", "exited"}

\* Lines 279-286: the CloseRequested handler spawns a thread and returns.
CloseRequested ==
  /\ mpc = "running"
  /\ handlerSet
  /\ \E w \in Workers :
       /\ wpc[w] = "unspawned"
       /\ \A v \in Workers : v < w => wpc[v] # "unspawned"
       /\ wpc' = [wpc EXCEPT ![w] = "try_state"]
       /\ lateStart' = IF AnyCompleted THEN lateStart \cup {w} ELSE lateStart
  /\ UNCHANGED <<probeVars, dirVars, mpc, startVars, slot, lockHolder,
                 handlerSet, killCalls, tookHandle>>

\* Line 287: try_state::<BackendProcess>().
WorkerTryState(w) ==
  /\ Alive
  /\ wpc[w] = "try_state"
  /\ wpc' = [wpc EXCEPT ![w] = IF slot = "unmanaged" THEN "done" ELSE "lock"]
  /\ UNCHANGED <<probeVars, dirVars, mpc, startVars, slot, lockHolder,
                 handlerSet, killCalls, tookHandle, lateStart>>

\* Line 288: backend.0.lock() blocks until the mutex is free.
WorkerLock(w) ==
  /\ Alive
  /\ wpc[w] = "lock"
  /\ lockHolder = {}
  /\ lockHolder' = {w}
  /\ wpc' = [wpc EXCEPT ![w] = "take"]
  /\ UNCHANGED <<probeVars, dirVars, mpc, startVars, slot, handlerSet,
                 killCalls, tookHandle, lateStart>>

\* Line 289: process.take().
WorkerTake(w) ==
  /\ Alive
  /\ wpc[w] = "take"
  /\ IF slot = "Some"
     THEN /\ slot' = SlotAfterTake(slot)
          /\ tookHandle' = tookHandle \cup {w}
          /\ lockHolder' = GuardAfterTake(lockHolder, w)
          /\ wpc' = [wpc EXCEPT ![w] = "kill"]
     ELSE /\ wpc' = [wpc EXCEPT ![w] = "unlock"]
          /\ UNCHANGED <<slot, tookHandle, lockHolder>>
  /\ UNCHANGED <<probeVars, dirVars, mpc, startVars, handlerSet,
                 killCalls, lateStart>>

\* Lines 290-294: child.id(), terminate_backend_process(pid); the guard
\* `process` is still in scope.
WorkerKill(w) ==
  /\ Alive
  /\ wpc[w] = "kill"
  /\ Terminate(w)
  /\ slot' = SlotAfterKill(slot, child')
  /\ wpc' = [wpc EXCEPT ![w] = "unlock"]
  /\ UNCHANGED <<probeVars, dirVars, mpc, backend_exe, sbResult, probeReady,
                 childPid, lockHolder, handlerSet, tookHandle, lateStart>>

\* Line 296: the guard goes out of scope; line 298: the thread ends.
WorkerUnlock(w) ==
  /\ Alive
  /\ wpc[w] = "unlock"
  /\ lockHolder' = lockHolder \ {w}
  /\ wpc' = [wpc EXCEPT ![w] = "done"]
  /\ UNCHANGED <<probeVars, dirVars, mpc, startVars, slot, handlerSet,
                 killCalls, tookHandle, lateStart>>

Worker(w) ==
  \/ WorkerTryState(w)
  \/ WorkerLock(w)
  \/ WorkerTake(w)
  \/ WorkerKill(w)
  \/ WorkerUnlock(w)

(* ----------------- RunEvent::Exit handler, lines 307-323 -------------- *)

\* Line 309: the event loop delivers RunEvent::Exit to the run callback.
ExitEvent ==
  /\ mpc = "running"
  /\ mpc' = "exit_try_state"
  /\ lateStart' = IF AnyCompleted THEN lateStart \cup {0} ELSE lateStart
  /\ UNCHANGED <<probeVars, dirVars, startVars, slot, lockHolder, handlerSet,
                 wpc, killCalls, tookHandle>>

\* Line 310: try_state::<BackendProcess>().
ExitTryState ==
  /\ mpc = "exit_try_state"
  /\ mpc' = IF slot = "unmanaged" THEN "exit_done" ELSE "exit_lock"
  /\ UNCHANGED <<probeVars, dirVars, startVars, slotVars>>

\* Line 311: backend.0.lock() blocks the event thread until the mutex is free.
ExitLock ==
  /\ mpc = "exit_lock"
  /\ lockHolder = {}
  /\ lockHolder' = {0}
  /\ mpc' = "exit_take"
  /\ UNCHANGED <<probeVars, dirVars, startVars, slot, handlerSet, wpc,
                 killCalls, tookHandle, lateStart>>

\* Line 312: process.take().
ExitTake ==
  /\ mpc = "exit_take"
  /\ IF slot = "Some"
     THEN /\ slot' = SlotAfterTake(slot)
          /\ tookHandle' = tookHandle \cup {0}
          /\ lockHolder' = GuardAfterTake(lockHolder, 0)
          /\ mpc' = "exit_kill"
     ELSE /\ mpc' = "exit_unlock"
          /\ UNCHANGED <<slot, tookHandle, lockHolder>>
  /\ UNCHANGED <<probeVars, dirVars, startVars, handlerSet, wpc,
                 killCalls, lateStart>>

\* Lines 313-318: child.id(), terminate_backend_process(pid), on the event
\* thread, the guard still in scope.
ExitKill ==
  /\ mpc = "exit_kill"
  /\ Terminate(0)
  /\ slot' = SlotAfterKill(slot, child')
  /\ mpc' = "exit_unlock"
  /\ UNCHANGED <<probeVars, dirVars, backend_exe, sbResult, probeReady,
                 childPid, lockHolder, handlerSet, wpc, tookHandle, lateStart>>

\* Lines 320-322: the guard goes out of scope, the callback returns.
ExitUnlock ==
  /\ mpc = "exit_unlock"
  /\ lockHolder' = lockHolder \ {0}
  /\ mpc' = "exit_done"
  /\ UNCHANGED <<probeVars, dirVars, startVars, slot, handlerSet, wpc,
                 killCalls, tookHandle, lateStart>>

ExitHandler ==
  \/ ExitTryState
  \/ ExitLock
  \/ ExitTake
  \/ ExitKill
  \/ ExitUnlock

\* Line 323-324: run() returns after the Exit callback and the process ends,
\* with it every worker thread still running.
ProcessExit ==
  /\ mpc = "exit_done"
  /\ mpc' = "exited"
  /\ UNCHANGED <<probeVars, dirVars, startVars, slotVars>>

(* --------------------------- specifications --------------------------- *)

InitApp ==
  /\ backend_exe = "unset"
  /\ sbResult = NoResult
  /\ probeReady = "pending"
  /\ child = "none"
  /\ childPid = 0
  /\ slot = "unmanaged"
  /\ lockHolder = {}
  /\ handlerSet = FALSE
  /\ wpc = [w \in Workers |-> "unspawned"]
  /\ killCalls = <<>>
  /\ tookHandle = {}
  /\ lateStart = {}

\* The application at the entry of the setup closure.
Init ==
  /\ ProbeIdle
  /\ primaryExists \in BOOLEAN
  /\ sidecarExists \in BOOLEAN
  /\ logFile \in {"absent", "old"}
  /\ mpc = "sb_current_exe"
  /\ InitApp

Next ==
  \/ SbCurrentExe
  \/ SbCreateLog
  \/ SbResolve
  \/ SbSpawn
  \/ SbCallProbe
  \/ ProbeStep
  \/ SbReturn
  \/ SetupManage
  \/ SetupRegister
  \/ CloseRequested
  \/ \E w \in Workers : Worker(w)
  \/ ExitEvent
  \/ ExitHandler
  \/ ProcessExit

Spec == Init /\ [][Next]_vars

\* The scheduler runs every spawned thread that can take a step, and the
\* event thread runs the Exit callback to its end.
SpecLive ==
  /\ Spec
  /\ \A w \in Workers : WF_vars(Worker(w))
  /\ WF_vars(ExitHandler)

\* wait_for_backend_ready called on its own with small arguments.
DelayChoices == (0..MaxDelay) \cup {StartupDelayMs}

InitProbe ==
  /\ \E n \in 0..MaxAttempts : \E d \in DelayChoices : ProbeCalled(n, d)
  /\ primaryExists = FALSE
  /\ sidecarExists = FALSE
  /\ logFile = "absent"
  /\ mpc = "caller"
  /\ InitApp

NextProbe == ProbeStep

SpecProbe == InitProbe /\ [][NextProbe]_vars

(* ------------------------------ claims -------------------------------- *)

\* start_backend returned Ok(child): setup put a live handle in the slot.
HandleManaged == sbResult.tag = "Ok"

\* Thread 0 is inside or past the Exit callback.
ExitStarted ==
  mpc \in {"exit_try_state", "exit_lock", "exit_take", "exit_kill",
           "exit_unlock", "exit_done", "exited"}
ExitReturned == mpc \in {"exit_done", "exited"}

SetupDone == mpc = "running" \/ ExitStarted

\* Every termination that was started has returned, and there is one.
AllReturned ==
  /\ \A w \in Workers : wpc[w] \in {"unspawned", "done"}
  /\ ExitStarted => ExitReturned
  /\ AnyCompleted

KillsBy(t) == {i \in 1..Len(killCalls) : killCalls[i].by = t}

\* C1: whatever the interleaving of the window-close workers and the Exit
\* callback against a slot that held a live handle,
\* terminate_backend_process is never called twice, and once every started
\* termination has returned it has been called exactly once and the slot
\* is empty.
C1_ExactlyOneKill ==
  /\ Len(killCalls) <= 1
  /\ (HandleManaged /\ AllReturned) => (Len(killCalls) = 1 /\ slot = "None")

\* All workers and the Exit callback have returned after one kill.
C1_Witness ==
  /\ HandleManaged
  /\ \A w \in Workers : wpc[w] = "done"
  /\ mpc = "exit_done"
  /\ Len(killCalls) = 1

\* A shutdown trigger has fired while the slot holds the live handle.
TriggerFiredOnLiveHandle ==
  /\ slot = "Some"
  /\ \/ ExitStarted
     \/ \E w \in Workers : wpc[w] # "unspawned"

KillIssuedForChild ==
  \E i \in 1..Len(killCalls) : killCalls[i].pid = childPid /\ childPid \in Pids

\* C2: under fair scheduling of the worker threads and of the Exit
\* callback, a trigger that fires while the slot holds a live handle leads
\* to the tree kill of that child's pid, whichever trigger came first.
C2_KillEventuallyIssued == TriggerFiredOnLiveHandle ~> KillIssuedForChild

\* A window-close worker, fired first, issued the kill of the child's pid,
\* and the Exit callback that followed has returned.
C2_Witness ==
  /\ Len(killCalls) = 1
  /\ killCalls[1].by \in Workers
  /\ killCalls[1].pid = childPid
  /\ mpc = "exit_done"

\* C3: a termination started after another has completed is a no-op: the
\* slot is already empty, its take returns nothing and it never calls
\* terminate_backend_process, also when the completed kill failed.
C3_LaterTerminationIsNoOp ==
  /\ lateStart # {} => slot # "Some"
  /\ \A t \in lateStart : t \notin tookHandle /\ KillsBy(t) = {}
  /\ AnyCompleted /\ HandleManaged => Len(killCalls) = 1

\* The kill failed (the child survived), and the Exit callback, started
\* after the worker had finished, has returned without another kill.
C3_Witness ==
  /\ child = "survived"
  /\ 0 \in lateStart
  /\ mpc = "exit_done"
  /\ Len(killCalls) = 1

\* C4 (as claimed): the thread that delivers the events never executes
\* terminate_backend_process and never waits for a kill in progress.
C4_EventThreadNeverKills ==
  /\ mpc # "exit_kill"
  /\ KillsBy(0) = {}
  /\ ~(mpc = "exit_lock" /\ \E w \in Workers : wpc[w] = "kill")

\* C5: when every connect is refused the probe returns not-ready after
\* exactly max_attempts connects, with at least max_attempts - 1 sleeps, and
\* never connects more than max_attempts times.
C5_RefusedTakesAllAttempts ==
  /\ connects <= max_attempts
  /\ (ppc = "returned" /\ allRefused) =>
       /\ ready = "false"
       /\ connects = max_attempts
       /\ sleeps >= max_attempts - 1

\* The probe has returned after MaxAttempts refused connects.
C5_Witness ==
  /\ ppc = "returned"
  /\ allRefused
  /\ max_attempts = MaxAttempts
  /\ connects = MaxAttempts
  /\ ready = "false"

\* C6: the probe returns ready exactly when one of its attempts read bytes
\* that hold "HTTP/1.1 200" or "\"status\"", and it returns at the first
\* such attempt: no further connect, no sleep after it.
C6_ReadyIffMarkerRead ==
  /\ ppc = "loop" => matchedAt = 0
  /\ matchedAt <= max_attempts
  /\ ppc = "returned" =>
       /\ ready = "true" <=> matchedAt # 0
       /\ ready = "true" =>
            /\ connects = matchedAt
            /\ attempt = matchedAt
            /\ sleeps = matchedAt - 1
       /\ ready = "false" => connects = max_attempts

\* Ready on the first attempt, with no sleep at all.
C6_Witness ==
  /\ ppc = "returned"
  /\ ready = "true"
  /\ matchedAt = 1
  /\ sleeps = 0
  /\ max_attempts > 1

\* C7 (as claimed): when the probe returns it has blocked its thread for at
\* most max_attempts x delay.
C7_BlockedAtMostAttemptsTimesDelay ==
  ppc = "returned" => elapsed <= max_attempts * delay_ms

\* C8 (as claimed): the file launched is the primary one whenever it
\* exists and the sidecar one when only it exists; when neither exists
\* start_backend fails with NotFound carrying the primary path and spawns
\* no child.
C8_ResolutionOverFourCases ==
  (mpc = "setup_match" /\ sbResult.kind # "current_exe") =>
    /\ primaryExists => backend_exe \in {"unset", "primary"}
    /\ (~primaryExists /\ sidecarExists) => backend_exe \in {"unset", "sidecar"}
    /\ (~primaryExists /\ ~sidecarExists) =>
         /\ sbResult = ErrResult("NotFound", "primary")
         /\ child = "none"

\* C9: when start_backend fails, setup goes on: the slot is registered
\* empty, and no shutdown trigger ever takes a handle or calls
\* terminate_backend_process.
C9_FailedStartLeavesEmptySlot ==
  sbResult.tag = "Err" =>
    /\ mpc # "setup_match" => slot = "None"
    /\ tookHandle = {}
    /\ killCalls = <<>>
    /\ child = "none"

\* The log file could not be created; setup completed, every worker and
\* the Exit callback ran, and nothing was killed.
C9_Witness ==
  /\ sbResult = ErrResult("log_create", "log")
  /\ \A w \in Workers : wpc[w] = "done"
  /\ mpc = "exit_done"
  /\ slot = "None"
  /\ killCalls = <<>>

\* C10: when the probe returns not-ready after the spawn, start_backend
\* still returns Ok(child), startup does not kill the child, the slot gets
\* the handle, and the shutdown triggers kill it once, by its pid.
C10_NotReadyKeepsChild ==
  probeReady = "false" =>
    /\ sbResult.tag = "Ok"
    /\ killCalls = <<>> => child = "running"
    /\ (SetupDone /\ tookHandle = {}) => slot = "Some"
    /\ AllReturned => (Len(killCalls) = 1 /\ killCalls[1].pid = childPid)

\* The probe gave up, the application ran, and the Exit callback killed
\* the child.
C10_Witness ==
  /\ probeReady = "false"
  /\ mpc = "exit_done"
  /\ Len(killCalls) = 1
  /\ killCalls[1].by = 0
  /\ killCalls[1].pid = childPid

\* A thread is at its call of terminate_backend_process with the taken
\* child in hand.
Killing(t) == IF t = 0 THEN mpc = "exit_kill" ELSE wpc[t] = "kill"
Threads == {0} \cup Workers

\* C11 (as claimed): no thread holds the slot's mutex while it executes
\* terminate_backend_process, and no caller waits for the mutex while
\* another caller's kill is in progress.
C11_GuardReleasedBeforeKill ==
  /\ \A t \in Threads : Killing(t) => t \notin lockHolder
  /\ \A t \in Threads :
       Killing(t) => /\ mpc # "exit_lock"
                     /\ \A w \in Workers : wpc[w] # "lock"

\* The live Child values of a state: the one in the slot, the one
\* start_backend holds between spawn and app.manage, the one a thread has
\* taken and not yet dropped.
HeldByStartup ==
  \/ mpc \in {"sb_probe", "sb_wait_probe"}
  \/ mpc = "setup_match" /\ sbResult.tag = "Ok"
HandleCount ==
  (IF slot = "Some" THEN 1 ELSE 0)
  + (IF HeldByStartup THEN 1 ELSE 0)
  + Cardinality({t \in Threads : Killing(t)})

\* C12: there is never more than one live child handle, and a slot that
\* has become empty (by a take, or registered empty after a failed launch)
\* is never populated again.
C12_OneHandleAndMonotonic ==
  /\ [](HandleCount <= 1)
  /\ [][slot = "None" => slot' = "None"]_vars

\* The handle was taken, the kill failed, and every worker and the Exit
\* callback have run over the emptied slot.
C12_Witness ==
  /\ slot = "None"
  /\ tookHandle # {}
  /\ child = "survived"
  /\ \A w \in Workers : wpc[w] = "done"
  /\ mpc = "exited"

\* C13 (as claimed): backend.log is created or truncated only once an
\* executable path has been resolved; with neither backend file present
\* start_backend fails with the NotFound error and leaves backend.log as
\* it was.
C13_LogOnlyAfterResolution ==
  /\ logFile = "fresh" => backend_exe # "unset"
  /\ (/\ mpc = "setup_match"
      /\ sbResult.kind # "current_exe"
      /\ ~primaryExists /\ ~sidecarExists) =>
       /\ sbResult.kind = "NotFound"
       /\ logFile # "fresh"

\* C14: every attempt that does not return ready is followed by exactly
\* one sleep of delay_ms before the next attempt: the sleeps made always
\* equal the failed attempts made, whatever way each attempt failed.
C14_OneSleepPerFailedAttempt ==
  /\ ppc = "loop" => sleeps = attempt
  /\ (ppc = "returned" /\ ready = "false") => sleeps = attempt
  /\ (ppc = "returned" /\ ready = "true") => sleeps = attempt - 1
  /\ elapsed >= sleeps * delay_ms
  /\ connects = attempt

\* Two attempts failed, one of them on a silent peer, two sleeps were
\* made, and the next attempt is about to start.
C14_Witness ==
  /\ ppc = "loop"
  /\ attempt = 2
  /\ sleeps = 2
  /\ ~allRefused
  /\ delay_ms > 0
  /\ elapsed = ReadTimeoutMs + 2 * delay_ms
  /\ RangeHasNext(attempt, max_attempts)

\* C15: when the Exit callback has returned and the slot was populated,
\* terminate_backend_process has been called and has returned, in the
\* callback itself or in the worker that took the handle first.
C15_KillDoneWhenExitReturns ==
  (ExitReturned /\ HandleManaged) =>
    /\ Len(killCalls) = 1
    /\ killCalls[1].pid = childPid
    /\ slot = "None"
    /\ \A t \in Threads : ~Killing(t)

\* The Exit callback started while a worker had not finished, the worker
\* did the kill, and the callback has returned.
C15_Witness ==
  /\ HandleManaged
  /\ mpc = "exit_done"
  /\ 0 \notin lateStart
  /\ Len(killCalls) = 1
  /\ killCalls[1].by \in Workers

\* A shutdown handler (a worker's closure or the Exit callback) is running.
HandlerRuns ==
  \/ ExitStarted /\ ~ExitReturned
  \/ \E w \in Workers : wpc[w] \notin {"unspawned", "done"}

\* C16 (as claimed): whenever a shutdown handler runs, a child that was
\* spawned and is not yet killed has its handle in the slot.
C16_RunningChildIsInSlot ==
  (HandlerRuns /\ child = "running") => slot = "Some"

\* C16 (amended): start_backend returns no error once the child is
\* spawned, no handler runs before the slot is registered, and whenever a
\* handler runs a running child has its handle in the slot or in the hands
\* of the one handler that took it and is at its kill.
C16_ChildNeverOrphaned ==
  /\ sbResult.tag = "Err" => child = "none"
  /\ (handlerSet \/ HandlerRuns \/ ExitStarted) => slot # "unmanaged"
  /\ (HandlerRuns /\ child = "running" /\ tookHandle = {}) => slot = "Some"
  /\ (SetupDone /\ child = "running") =>
       \/ slot = "Some"
       \/ \E t \in tookHandle : Killing(t)

\* A worker and the Exit callback both run while the running child's
\* handle is still in the slot.
C16_Witness ==
  /\ child = "running"
  /\ slot = "Some"
  /\ mpc = "exit_lock"
  /\ \E w \in Workers : wpc[w] = "take"

====
